---- MODULE Spec2Model ----
(***************************************************************************)
(* Model of the fraud chatbot engine: the SQL tool's guard                 *)
(* (NokchaAgent.query_sql), the tabular store                              *)
(* (SQLiteDBManager.execute_read_query), the shared tool-call ledger       *)
(* (NokchaAgent.tool_calls), the two run modes (aeval / ainvoke) and the   *)
(* streaming endpoint (engine/main.py stream).                             *)
(*                                                                         *)
(* Query strings are sequences of one-character strings, so that the       *)
(* guard's regular expression and the store's startswith test are          *)
(* computed character by character, as the code computes them.             *)
(***************************************************************************)
EXTENDS Integers, Sequences, FiniteSets, TLC

(***************************************************************************)
(* Bounds of the model.                                                    *)
(***************************************************************************)
\* a query is the concatenation of at most MaxPieces pieces of Pieces
MaxPieces == 3
\* number of requests the one agent instance serves at a time
MaxRuns == 2
\* the agent graph's step limit (a framework setting; the repository sets none)
RecursionLimit == 2
\* the callers of the store at one time, and the connections they open in all
MaxCallers == 2
MaxConnections == 3
\* the most tool calls of one message of the model, and of one run
MaxBatch == 2
MaxInvocations == 3
\* the most PDFs of the data folder, and the most chunks of one PDF
MaxPdfs == 3
MaxChunks == 2

(***************************************************************************)
(* Characters.                                                             *)
(***************************************************************************)
UpperChars == <<"A","B","C","D","E","F","G","H","I","J","K","L","M",
                "N","O","P","Q","R","S","T","U","V","W","X","Y","Z">>
LowerChars == <<"a","b","c","d","e","f","g","h","i","j","k","l","m",
                "n","o","p","q","r","s","t","u","v","w","x","y","z">>
Digits == {"0","1","2","3","4","5","6","7","8","9"}
\* a lone surrogate code point (U+D800): a str character that has no UTF-8 encoding
Surrogate == "U+D800"

Range(s) == {s[i] : i \in 1..Len(s)}

\* str.upper() on one character
ToUpper(c) ==
  IF \E i \in 1..26 : LowerChars[i] = c
    THEN UpperChars[CHOOSE i \in 1..26 : LowerChars[i] = c]
    ELSE c

\* str.upper()
Upper(s) == [i \in 1..Len(s) |-> ToUpper(s[i])]

\* the regular expression class \w : letters, digits and the underscore
IsWordChar(c) == c \in Range(UpperChars) \cup Range(LowerChars) \cup Digits \cup {"_"}

\* the characters str.strip() removes
IsSpace(c) == c = " "

\* s[a..b], empty when a > b
Slice(s, a, b) == IF a > b THEN <<>> ELSE SubSeq(s, a, b)

\* str.strip(): drop the leading and the trailing whitespace
Strip(s) ==
  LET keep == {i \in 1..Len(s) : ~IsSpace(s[i])}
  IN  IF keep = {} THEN <<>>
      ELSE Slice(s, CHOOSE i \in keep : \A j \in keep : i <= j,
                    CHOOSE i \in keep : \A j \in keep : i >= j)

\* str.startswith(prefix)
StartsWith(s, prefix) ==
  /\ Len(s) >= Len(prefix)
  /\ SubSeq(s, 1, Len(prefix)) = prefix

(***************************************************************************)
(* The guard of query_sql.                                                 *)
(***************************************************************************)
forbidden_keywords ==
  << <<"U","P","D","A","T","E">>,
     <<"D","E","L","E","T","E">>,
     <<"I","N","S","E","R","T">>,
     <<"D","R","O","P">>,
     <<"A","L","T","E","R">>,
     <<"C","R","E","A","T","E">>,
     <<"T","R","U","N","C","A","T","E">> >>

\* a variant of RegexSearch: the IGNORECASE flag is left out
RegexSearchCaseSensitive(keyword, s) ==
  \E i \in 1..(Len(s) - Len(keyword) + 1) :
    /\ \A j \in 1..Len(keyword) : s[i + j - 1] = keyword[j]
    /\ (i = 1 \/ ~IsWordChar(s[i - 1]))
    /\ (i + Len(keyword) - 1 = Len(s) \/ ~IsWordChar(s[i + Len(keyword)]))

\* a variant of RegexSearch: a plain substring search, without the boundaries
RegexSearchSubstring(keyword, s) ==
  \E i \in 1..(Len(s) - Len(keyword) + 1) :
    \A j \in 1..Len(keyword) : ToUpper(s[i + j - 1]) = keyword[j]

\* re.search(r'(?:\W|^)' + re.escape(keyword) + r'(?:\W|$)', s, re.IGNORECASE):
\* the keyword matches at some position i, in any letter case, with a non-word
\* character or the start of the string before it and a non-word character or
\* the end of the string after it
RegexSearch(keyword, s) ==
  \E i \in 1..(Len(s) - Len(keyword) + 1) :
    /\ \A j \in 1..Len(keyword) : ToUpper(s[i + j - 1]) = keyword[j]
    /\ (i = 1 \/ ~IsWordChar(s[i - 1]))
    /\ (i + Len(keyword) - 1 = Len(s) \/ ~IsWordChar(s[i + Len(keyword)]))

NoKeyword == <<>>

\* the for loop of query_sql over forbidden_keywords: the keyword of the first
\* pattern, in list order, that matches the stripped query (the ValueError names
\* it), or NoKeyword when the loop ends without raising
GuardKeyword(query) ==
  LET normalized_query == Strip(query)
      hits == {k \in 1..Len(forbidden_keywords) :
                 RegexSearch(forbidden_keywords[k], normalized_query)}
  IN  IF hits = {} THEN NoKeyword
      ELSE forbidden_keywords[CHOOSE k \in hits : \A h \in hits : k <= h]

(***************************************************************************)
(* The SQLite driver, as far as the store relies on it: what               *)
(* cursor.execute(query) followed by fetchall() can do.                    *)
(***************************************************************************)
SELECT == <<"S","E","L","E","C","T">>
PRAGMA == <<"P","R","A","G","M","A">>
\* the statements of SQLite that change a table or the schema
WriteWords ==
  { <<"U","P","D","A","T","E">>, <<"D","E","L","E","T","E">>,
    <<"I","N","S","E","R","T">>, <<"D","R","O","P">>, <<"A","L","T","E","R">>,
    <<"C","R","E","A","T","E">>, <<"R","E","P","L","A","C","E">> }

\* the smallest of the indexes `at` of s, or Len(s) + 1 when there is none
FirstIndex(s, at) ==
  IF at = {} THEN Len(s) + 1 ELSE CHOOSE i \in at : \A j \in at : i <= j

\* SQLite skips leading whitespace and semicolons; the first statement runs
\* to the next semicolon
StmtStart(s) == FirstIndex(s, {i \in 1..Len(s) : ~IsSpace(s[i]) /\ s[i] # ";"})
StmtEnd(s) == FirstIndex(s, {i \in StmtStart(s)..Len(s) : s[i] = ";"})
FirstStmt(s) == Slice(s, StmtStart(s), StmtEnd(s) - 1)
\* text after the first statement's semicolon that is not whitespace: the
\* sqlite3 module refuses to execute more than one statement
HasSecondStmt(s) == \E i \in (StmtEnd(s) + 1)..Len(s) : ~IsSpace(s[i])
\* the statement's first token, in upper case
LeadingWord(stmt) ==
  Upper(Slice(stmt, 1, FirstIndex(stmt, {i \in 1..Len(stmt) : ~IsWordChar(stmt[i])}) - 1))

DriverOutcome(exc, result, wrote) == [exc |-> exc, result |-> result, wrote |-> wrote]

\* The possible outcomes of cursor.execute(query); cursor.fetchall().
\*   exc: "none", "sqlite3.Error" (OperationalError, ProgrammingError, ...),
\*        or an exception that is no sqlite3.Error: UnicodeEncodeError for a
\*        query that cannot be encoded as UTF-8, sqlite3.Warning for several
\*        statements on Python before 3.11 (sqlite3.ProgrammingError since);
\*   result: "rows" or "empty";   wrote: the statement changed the database.
\* Whether a well-formed statement succeeds depends on the schema and the
\* data, which are left open: it yields rows, no rows, or a sqlite3.Error.
SqliteExecute(query) ==
  IF Surrogate \in Range(query)
    THEN {DriverOutcome("UnicodeEncodeError", "empty", FALSE)}
  ELSE IF HasSecondStmt(query)
    THEN {DriverOutcome("sqlite3.Error", "empty", FALSE),
          DriverOutcome("sqlite3.Warning", "empty", FALSE)}
  ELSE IF FirstStmt(query) = <<>>
    THEN {DriverOutcome("none", "empty", FALSE)}
  ELSE IF LeadingWord(FirstStmt(query)) \in {SELECT, PRAGMA}
    THEN {DriverOutcome("none", "rows", FALSE),
          DriverOutcome("none", "empty", FALSE),
          DriverOutcome("sqlite3.Error", "empty", FALSE)}
  ELSE IF LeadingWord(FirstStmt(query)) \in WriteWords
    THEN {DriverOutcome("none", "empty", TRUE),
          DriverOutcome("sqlite3.Error", "empty", FALSE)}
  ELSE {DriverOutcome("sqlite3.Error", "empty", FALSE)}

(***************************************************************************)
(* The tabular store: SQLiteDBManager.execute_read_query.                  *)
(***************************************************************************)
\* What one call did.
\*   raised:   the exception that left the call ("none" when it returned)
\*   result:   the rows returned: "rows", "empty" ("none" when it raised)
\*   executed: cursor.execute(query) was reached
\*   failure:  the exception cursor.execute raised, "connect" when
\*             sqlite3.connect raised, "none" otherwise
\*   wrote:    the executed statement changed the database
StoreOutcome(raised, result, executed, failure, wrote) ==
  [raised |-> raised, result |-> result, executed |-> executed,
   failure |-> failure, wrote |-> wrote]

\* a variant of IsSelectLeading: the test is left out
IsSelectLeadingAlways(query) == TRUE

\* the store's read-only test: query.strip().upper().startswith("SELECT")
IsSelectLeading(query) == StartsWith(Upper(Strip(query)), SELECT)

\* the outcome of the try block once cursor.execute has answered with d:
\* rows are returned, a sqlite3.Error is caught and [] returned, any other
\* exception leaves the call
AfterExecute(d) ==
  IF d.exc = "none" THEN StoreOutcome("none", d.result, TRUE, "none", d.wrote)
  ELSE IF d.exc = "sqlite3.Error"
    THEN StoreOutcome("none", "empty", TRUE, d.exc, d.wrote)
  ELSE StoreOutcome(d.exc, "none", TRUE, d.exc, d.wrote)

\* execute_read_query(query); connects is whether sqlite3.connect succeeds
\* (it raises sqlite3.OperationalError when the file cannot be opened, inside
\* the try block, before the read-only test)
execute_read_query(query, connects) ==
  IF ~connects
    THEN {StoreOutcome("none", "empty", FALSE, "connect", FALSE)}
  ELSE IF ~IsSelectLeading(query)
    THEN {StoreOutcome("ValueError", "none", FALSE, "none", FALSE)}
  ELSE {AfterExecute(d) : d \in SqliteExecute(query)}

(***************************************************************************)
(* The SQL tool: NokchaAgent.query_sql.                                    *)
(***************************************************************************)
\* a variant of ToolCallRecord: the record tells of a failure
ToolCallRecordError(tool_name, query) ==
  [tool_name |-> tool_name, query |-> query, status |-> "error"]

\* the record both tools append:
\* {"tool_name": tool_name, "query": query, "status": "success"}
ToolCallRecord(tool_name, query) ==
  [tool_name |-> tool_name, query |-> query, status |-> "success"]

\* What one invocation did.
\*   raised:  "none" or the exception that left the tool
\*   by:      who raised it: "guard", "store" (the store's read-only test),
\*            "driver" (an exception of cursor.execute the store let through)
\*   keyword: the keyword the guard's error names (NoKeyword otherwise)
\*   called_store: execute_read_query was called
\*   store:   the store's outcome (when called_store)
\*   appended: a record was appended to self.tool_calls
ToolOutcome(raised, by, keyword, called_store, store, appended) ==
  [raised |-> raised, by |-> by, keyword |-> keyword,
   called_store |-> called_store, store |-> store, appended |-> appended]

NotCalled == StoreOutcome("none", "none", FALSE, "none", FALSE)

\* a variant of GuardedBy: the guard loop is left out
GuardedByNothing(query) == NoKeyword

\* the keyword the guard of query_sql raises for (NoKeyword: it lets the query
\* pass)
GuardedBy(query) == GuardKeyword(query)

query_sql(query, connects) ==
  IF GuardedBy(query) # NoKeyword
    THEN {ToolOutcome("ValueError", "guard", GuardedBy(query), FALSE, NotCalled, FALSE)}
  ELSE {IF s.raised = "none"
          THEN ToolOutcome("none", "none", NoKeyword, TRUE, s, TRUE)
          ELSE ToolOutcome(s.raised,
                           IF s.executed THEN "driver" ELSE "store",
                           NoKeyword, TRUE, s, FALSE)
        : s \in execute_read_query(query, connects)}

(***************************************************************************)
(* Query strings.                                                          *)
(***************************************************************************)
Pieces ==
  { SELECT, <<"d","r","o","p">>, <<"U","P","D","A","T","E">>,
    <<"R","E","P","L","A","C","E">>,
    <<" ">>, <<";">>, <<"_">>, <<Surrogate>> }

RECURSIVE QueriesOf(_)
QueriesOf(n) ==
  IF n = 0 THEN {<<>>}
  ELSE LET shorter == QueriesOf(n - 1)
       IN  shorter \cup {q \o p : q \in shorter, p \in Pieces}

Queries == QueriesOf(MaxPieces)

\* the queries the reasoning model hands to the SQL tool in a run: one that
\* passes, one the guard rejects, one the store rejects
AgentQueries ==
  { SELECT \o <<" ", "1">>,
    <<"d","r","o","p">>,
    PRAGMA }

VectorQueries == { <<"x">> }

(***************************************************************************)
(* The retrieval tool: NokchaAgent.query_vector_db.                        *)
(***************************************************************************)
\* retrieves: self.vectorestore.retrieve(query) returns (it embeds the query
\* through a remote service and raises when that fails); the record is
\* appended after it returned
query_vector_db(query, retrieves) ==
  IF retrieves
    THEN ToolOutcome("none", "none", NoKeyword, FALSE, NotCalled, TRUE)
    ELSE ToolOutcome("Exception", "retriever", NoKeyword, FALSE, NotCalled, FALSE)

(***************************************************************************)
(* The knowledge base: KnowledgeBaseManager.                               *)
(***************************************************************************)
\* a document of the index: chunk `chunk` of PDF `pdf` of the data folder
Doc(pdf, chunk) == [page_content |-> "text", pdf |-> pdf, chunk |-> chunk]
\* Document(page_content="init", metadata={"id": "dummy"})
dummy_doc == [page_content |-> "init", pdf |-> 0, chunk |-> 0]

\* self.vectorstore: not set, or a FAISS index holding docs
Unset == [has |-> FALSE, docs |-> {}]
Index(docs) == [has |-> TRUE, docs |-> docs]

\* the index folder: absent, or present with the index save_local wrote there
\* (Unset: the folder is empty)
Folder(exists, index) == [exists |-> exists, index |-> index]

\* the number of candidates retrieve asks the index for
fetch_k == 20

\* the chunks _chunk_pdf yields for the PDFs of the data folder, each added
\* by add_text_data
ChunkDocs(pdfs) ==
  UNION {{Doc(f, c) : c \in 1..pdfs[f]} : f \in 1..Len(pdfs)}

\* What the constructor did: the exception that left it ("none": the object
\* exists), the vectorstore attribute and the index folder.
Constructed(exc, store, folder) == [raised |-> exc, vectorstore |-> store, kb_folder |-> folder]

\* _initialize_from_pdfs. embeds: the embedding service answers (every
\* FAISS.from_documents / add_documents embeds through it and raises when it
\* fails). The folder is made first and the index saved last.
initialize_from_pdfs(pdfs, embeds) ==
  IF pdfs = <<>>
    THEN IF embeds
           THEN Constructed("none", Index({dummy_doc}), Folder(TRUE, Index({dummy_doc})))
           ELSE Constructed("Exception", Unset, Folder(TRUE, Unset))
  ELSE IF ChunkDocs(pdfs) = {}
    THEN Constructed("AttributeError", Unset, Folder(TRUE, Unset))
  ELSE IF embeds
    THEN Constructed("none", Index(ChunkDocs(pdfs)), Folder(TRUE, Index(ChunkDocs(pdfs))))
  ELSE Constructed("Exception", Unset, Folder(TRUE, Unset))

\* KnowledgeBaseManager.__init__: load the saved index when the folder holds
\* one, build it from the PDFs otherwise
KnowledgeBaseManager(folder, pdfs, embeds) ==
  IF folder.exists /\ folder.index.has
    THEN Constructed("none", folder.index, folder)
    ELSE initialize_from_pdfs(pdfs, embeds)

\* What a call of retrieve did.
Retrieval(called, exc, docs) == [called |-> called, raised |-> exc, docs |-> docs]
NoRetrieval == Retrieval(FALSE, "none", {})

\* retrieve(query): similarity_search_with_relevance_scores(query, k=fetch_k)
\* embeds the query and returns the fetch_k nearest documents of the index,
\* each with its score
retrieve(store, embeds) ==
  IF ~store.has THEN {Retrieval(TRUE, "AttributeError", {})}
  ELSE IF ~embeds THEN {Retrieval(TRUE, "Exception", {})}
  ELSE IF Cardinality(store.docs) <= fetch_k THEN {Retrieval(TRUE, "none", store.docs)}
  ELSE {Retrieval(TRUE, "none", near) :
          near \in {d \in SUBSET store.docs : Cardinality(d) = fetch_k}}

(***************************************************************************)
(* State.                                                                  *)
(***************************************************************************)
VARIABLES
  tool_calls,   \* NokchaAgent.tool_calls: the list the agent instance holds
  fraud_data,   \* the contents of table fraud_data: "loaded" or "altered"
  pc,           \* per request slot: where its run is
  mode,         \* per request: "aeval" (POST /eval) or "ainvoke" (POST /stream)
  steps,        \* per request: the reasoning steps the run has taken
  pending,      \* per request: the tool call the reasoning model asked for
  conv,         \* per request: the last tool message added to the conversation
  own,          \* per request: the records the run's own tool calls appended
  returned,     \* per request: the tool_calls aeval returned (once it is done)
  out,          \* per request: the JSON objects the stream endpoint emitted
  raised,       \* per request: the exception that left aeval / ainvoke
  dropped,      \* the number of records the latest reset of the list dropped
  last,         \* the last invocation of query_sql made by the tool harness
  kbpc,         \* KnowledgeBaseManager: "new", "ready" (constructed), "failed"
  data_folder,  \* the PDFs of the data folder: the number of chunks of each
  kb_folder,    \* the index folder on disk
  vectorstore,  \* KnowledgeBaseManager.vectorstore
  retrieved,    \* what the last call of retrieve did
  calls,        \* per caller of the store: the call of the store it is in
  connections,  \* every connection sqlite3.connect returned: "open", "closed"
  batch,        \* the tool calls of the model's last message, each with its state
  invocations,  \* the number of tool invocations that have started in the run
  recorded      \* for each record of tool_calls, the invocation that appended it

\* the variables of the knowledge base
kbVars == <<kbpc, data_folder, kb_folder, vectorstore, retrieved>>
\* the variables of the calls of the store taken step by step
connVars == <<calls, connections>>
\* what the runs and the tool harness leave alone (they take the retrieval
\* tool and the store by their outcomes)
\* the variables of a run whose model asks for several tools in one message
batchVars == <<batch, invocations, recorded>>
sideVars == <<kbVars, connVars, batchVars>>

vars == <<tool_calls, fraud_data, pc, mode, steps, pending, conv, own,
          returned, out, raised, dropped, last, sideVars>>

runVars == <<pc, mode, steps, pending, conv, own, returned, out, raised, dropped>>

Runs == 1..MaxRuns
Callers == 1..MaxCallers

\* A call of the store.
\*   pc:    "idle" (no call), "connect", "check", "execute", "finally"
\*   fn:    "execute_read_query" or "get_column_names"
\*   arg:   the query, or the table name
\*   conn:  the local variable conn: 0 for None, else the connection's number
\*   exit:  how the try statement is left: "return" or "raise" ("none" before)
\*   exc:   the exception that leaves the call when exit is "raise"
\* An idle caller keeps the exit and exc of its last call.
StoreCall(at, fn, arg, conn, exit, exc) ==
  [pc |-> at, fn |-> fn, arg |-> arg, conn |-> conn, exit |-> exit, exc |-> exc]
NoStoreCall == StoreCall("idle", "none", <<>>, 0, "none", "none")

NoCall == [tool |-> "none", query |-> <<>>]
NoInvocation == [via |-> "none", query |-> <<>>, connects |-> TRUE, called |-> FALSE,
                 outcome |-> ToolOutcome("none", "none", NoKeyword, FALSE, NotCalled, FALSE)]

\* the chunk ainvoke yields for one message of the model: ai_msg.content + "\n",
\* wrapped by generate() of the stream endpoint as {"content": chunk}
ContentChunk(text) == [content |-> text]
\* the last object generate() yields: {"content": "", "done": True}
Sentinel == [content |-> "", done |-> TRUE]

\* the agent after NokchaAgent.__init__
InitAgent ==
  /\ tool_calls = <<>>
  /\ fraud_data = "loaded"
  /\ pc = [r \in Runs |-> "idle"]
  /\ mode = [r \in Runs |-> "aeval"]
  /\ steps = [r \in Runs |-> 0]
  /\ pending = [r \in Runs |-> NoCall]
  /\ conv = [r \in Runs |-> "none"]
  /\ own = [r \in Runs |-> <<>>]
  /\ returned = [r \in Runs |-> <<>>]
  /\ out = [r \in Runs |-> <<>>]
  /\ raised = [r \in Runs |-> "none"]
  /\ dropped = 0
  /\ last = NoInvocation
  /\ calls = [c \in Callers |-> NoStoreCall]
  /\ connections = <<>>
  /\ batch = <<>>
  /\ invocations = 0
  /\ recorded = <<>>

\* The service as deployed: the agent constructed, its knowledge base built
\* from a PDF of the data folder.
Init ==
  /\ InitAgent
  /\ kbpc = "ready"
  /\ data_folder = <<1>>
  /\ kb_folder = Folder(TRUE, Index(ChunkDocs(<<1>>)))
  /\ vectorstore = Index(ChunkDocs(<<1>>))
  /\ retrieved = NoRetrieval

(***************************************************************************)
(* A run: NokchaAgent.aeval / NokchaAgent.ainvoke driving the agent graph. *)
(***************************************************************************)
Active(r) == pc[r] \in {"reasoning", "tools", "final"}
Ended(r) == pc[r] \in {"done", "failed"}

\* a variant of ResetLedger: the run keeps the list of the run before
ResetLedgerKept(ledger) == ledger

\* self.tool_calls = [] , the first statement of aeval and of ainvoke
ResetLedger(ledger) == <<>>

\* A request arrives and is served as run r: eval() awaits aeval, or the response starts to
\* iterate generate() and with it ainvoke. Both begin by resetting the list.
StartRun(r, m) ==
  /\ pc[r] = "idle"
  /\ tool_calls' = ResetLedger(tool_calls)
  /\ pc' = [pc EXCEPT ![r] = "reasoning"]
  /\ mode' = [mode EXCEPT ![r] = m]
  /\ dropped' = Len(tool_calls)
  /\ UNCHANGED <<fraud_data, steps, pending, conv, own, returned, out, raised, last, sideVars>>

\* what the stream endpoint emits for one "model" chunk of the graph: ainvoke
\* yields the content of every message of the model, generate() wraps it
Emit(r, text) ==
  IF mode[r] = "ainvoke" THEN Append(out[r], ContentChunk(text)) ELSE out[r]

\* The reasoning model asks for a tool call (its message carries no text).
ModelCallsTool(r, tool, query) ==
  /\ pc[r] = "reasoning"
  /\ steps[r] < RecursionLimit
  /\ steps' = [steps EXCEPT ![r] = @ + 1]
  /\ pending' = [pending EXCEPT ![r] = [tool |-> tool, query |-> query]]
  /\ pc' = [pc EXCEPT ![r] = "tools"]
  /\ out' = [out EXCEPT ![r] = Emit(r, "\n")]
  /\ UNCHANGED <<tool_calls, fraud_data, mode, conv, own, returned, raised, dropped, last, sideVars>>

\* The reasoning model gives its final answer. aeval returns
\* (final_msg, self.tool_calls): the list the instance holds at that moment.
ModelAnswers(r) ==
  /\ pc[r] = "reasoning"
  /\ steps[r] < RecursionLimit
  /\ steps' = [steps EXCEPT ![r] = @ + 1]
  /\ out' = [out EXCEPT ![r] = Emit(r, "answer\n")]
  /\ IF mode[r] = "aeval"
       THEN /\ pc' = [pc EXCEPT ![r] = "done"]
            /\ returned' = [returned EXCEPT ![r] = tool_calls]
       ELSE /\ pc' = [pc EXCEPT ![r] = "final"]
            /\ UNCHANGED returned
  /\ UNCHANGED <<tool_calls, fraud_data, mode, pending, conv, own, raised, dropped, last, sideVars>>

\* The graph's stream is exhausted: the loop of generate() ends and it yields
\* the sentinel.
StreamEnds(r) ==
  /\ pc[r] = "final"
  /\ out' = [out EXCEPT ![r] = Append(@, Sentinel)]
  /\ pc' = [pc EXCEPT ![r] = "done"]
  /\ UNCHANGED <<tool_calls, fraud_data, mode, steps, pending, conv, own,
                 returned, raised, dropped, last, sideVars>>

\* The graph reaches its step limit while the model still asks for tools: the
\* framework raises GraphRecursionError out of agent.ainvoke / agent.astream.
\* Neither aeval, ainvoke, eval() nor generate() catches anything, so the
\* request fails.
StepLimitRaises(r) ==
  /\ pc[r] = "reasoning"
  /\ steps[r] = RecursionLimit
  /\ pc' = [pc EXCEPT ![r] = "failed"]
  /\ raised' = [raised EXCEPT ![r] = "GraphRecursionError"]
  /\ UNCHANGED <<tool_calls, fraud_data, mode, steps, pending, conv, own,
                 returned, out, dropped, last, sideVars>>

\* the outcomes of the tools on the calls the model makes (whether the
\* database opens and whether the retriever answers is open at each call)
SqlOutcomes ==
  [q \in AgentQueries |-> UNION {query_sql(q, connects) : connects \in BOOLEAN}]
VectorOutcomes ==
  [q \in VectorQueries |-> {query_vector_db(q, retrieves) : retrieves \in BOOLEAN}]

\* the outcomes of the tool the model asked for
Invoke(call) ==
  IF call.tool = "query_sql" THEN SqlOutcomes[call.query] ELSE VectorOutcomes[call.query]

Wrote(o) == o.called_store /\ o.store.wrote

\* The tool returns: it appended its record to the list the instance holds
\* now, and its result joins the conversation.
ToolReturns(r) ==
  /\ pc[r] = "tools"
  /\ \E o \in Invoke(pending[r]) :
       /\ o.raised = "none"
       /\ tool_calls' = Append(tool_calls, ToolCallRecord(pending[r].tool, pending[r].query))
       /\ own' = [own EXCEPT ![r] = Append(@, ToolCallRecord(pending[r].tool, pending[r].query))]
       /\ fraud_data' = IF Wrote(o) THEN "altered" ELSE fraud_data
  /\ conv' = [conv EXCEPT ![r] = "tool_result"]
  /\ pc' = [pc EXCEPT ![r] = "reasoning"]
  /\ pending' = [pending EXCEPT ![r] = NoCall]
  /\ UNCHANGED <<mode, steps, returned, out, raised, dropped, last, sideVars>>

\* The tool raises (the guard's or the store's ValueError, an exception of the
\* driver or of the retriever) and the framework's tool node turns the
\* exception into an error tool message: the run goes on.
ToolRaisesHandled(r) ==
  /\ pc[r] = "tools"
  /\ \E o \in Invoke(pending[r]) :
       /\ o.raised # "none"
       /\ fraud_data' = IF Wrote(o) THEN "altered" ELSE fraud_data
  /\ conv' = [conv EXCEPT ![r] = "tool_error"]
  /\ pc' = [pc EXCEPT ![r] = "reasoning"]
  /\ pending' = [pending EXCEPT ![r] = NoCall]
  /\ UNCHANGED <<tool_calls, mode, steps, own, returned, out, raised, dropped, last, sideVars>>

\* The tool raises and the framework's tool node re-raises it (its default for
\* exceptions raised while the tool executes): the exception leaves
\* agent.ainvoke / agent.astream and, nothing catching it, aeval or ainvoke.
ToolRaisesPropagates(r) ==
  /\ pc[r] = "tools"
  /\ \E o \in Invoke(pending[r]) :
       /\ o.raised # "none"
       /\ fraud_data' = IF Wrote(o) THEN "altered" ELSE fraud_data
       /\ raised' = [raised EXCEPT ![r] = o.by]
  /\ pc' = [pc EXCEPT ![r] = "failed"]
  /\ pending' = [pending EXCEPT ![r] = NoCall]
  /\ UNCHANGED <<tool_calls, mode, steps, conv, own, returned, out, dropped, last, sideVars>>

\* The request is over: eval() has sent its response, or the streaming
\* response has ended or broken off. Nothing of the run is kept.
RequestEnds(r) ==
  /\ Ended(r)
  /\ pc' = [pc EXCEPT ![r] = "idle"]
  /\ mode' = [mode EXCEPT ![r] = "aeval"]
  /\ steps' = [steps EXCEPT ![r] = 0]
  /\ conv' = [conv EXCEPT ![r] = "none"]
  /\ own' = [own EXCEPT ![r] = <<>>]
  /\ returned' = [returned EXCEPT ![r] = <<>>]
  /\ out' = [out EXCEPT ![r] = <<>>]
  /\ raised' = [raised EXCEPT ![r] = "none"]
  /\ UNCHANGED <<tool_calls, fraud_data, pending, dropped, last, sideVars>>

RunStep(r) ==
  \/ \E q \in AgentQueries : ModelCallsTool(r, "query_sql", q)
  \/ \E q \in VectorQueries : ModelCallsTool(r, "query_vector_db", q)
  \/ ModelAnswers(r)
  \/ StreamEnds(r)
  \/ StepLimitRaises(r)
  \/ ToolReturns(r)
  \/ ToolRaisesHandled(r)
  \/ ToolRaisesPropagates(r)
  \/ RequestEnds(r)

\* Requests are served concurrently by the one agent instance.
Next ==
  \E r \in Runs :
    \/ \E m \in {"aeval", "ainvoke"} : StartRun(r, m)
    \/ RunStep(r)

Spec == Init /\ [][Next]_vars

\* Requests are served one after another: a run starts when every other
\* request is over.
StartRunAlone(r, m) ==
  /\ \A other \in Runs : pc[other] = "idle"
  /\ StartRun(r, m)

NextSeq ==
  \E r \in Runs :
    \/ \E m \in {"aeval", "ainvoke"} : StartRunAlone(r, m)
    \/ RunStep(r)

SpecSeq == Init /\ [][NextSeq]_vars

(***************************************************************************)
(* The tool harness: query_sql, and execute_read_query on its own, invoked *)
(* on every query string of Queries, one invocation after another, each in *)
(* a run of its own.                                                       *)
(***************************************************************************)
\* the reasoning loop invokes the SQL tool
HarnessInvokes(query, connects) ==
  /\ ~last.called
  /\ \E o \in query_sql(query, connects) :
       /\ last' = [via |-> "query_sql", query |-> query, connects |-> connects,
                   called |-> TRUE, outcome |-> o]
       /\ tool_calls' = IF o.appended
                          THEN Append(tool_calls, ToolCallRecord("query_sql", query))
                          ELSE tool_calls
       /\ fraud_data' = IF Wrote(o) THEN "altered" ELSE fraud_data
  /\ UNCHANGED <<runVars, sideVars>>

\* a caller that ran no guard calls the store
HarnessExecutes(query, connects) ==
  /\ ~last.called
  /\ \E s \in execute_read_query(query, connects) :
       /\ last' = [via |-> "execute_read_query", query |-> query, connects |-> connects,
                   called |-> TRUE,
                   outcome |-> ToolOutcome(s.raised, "none", NoKeyword, TRUE, s, FALSE)]
       /\ fraud_data' = IF s.wrote THEN "altered" ELSE fraud_data
  /\ UNCHANGED <<tool_calls, runVars, sideVars>>

\* the reasoning loop invokes the retrieval tool
HarnessRetrieves(query, retrieves) ==
  /\ ~last.called
  /\ LET o == query_vector_db(query, retrieves)
     IN  /\ last' = [via |-> "query_vector_db", query |-> query, connects |-> TRUE,
                     called |-> TRUE, outcome |-> o]
         /\ tool_calls' = IF o.appended
                            THEN Append(tool_calls, ToolCallRecord("query_vector_db", query))
                            ELSE tool_calls
  /\ UNCHANGED <<fraud_data, runVars, sideVars>>

\* the invocation is over; the next run begins with aeval's / ainvoke's reset
HarnessRunStarts ==
  /\ last.called
  /\ tool_calls' = ResetLedger(tool_calls)
  /\ last' = NoInvocation
  /\ UNCHANGED <<fraud_data, runVars, sideVars>>

NextTool ==
  \/ HarnessRunStarts
  \/ \E query \in Queries, connects \in BOOLEAN : HarnessInvokes(query, connects)
  \/ \E query \in Queries, connects \in BOOLEAN : HarnessExecutes(query, connects)
  \/ \E query \in VectorQueries, retrieves \in BOOLEAN : HarnessRetrieves(query, retrieves)

SpecTool == Init /\ [][NextTool]_vars

(***************************************************************************)
(* The life of the knowledge base: construction at start-up, over any data *)
(* folder, and calls of retrieve.                                          *)
(***************************************************************************)
RECURSIVE DataFolders(_)
DataFolders(n) ==
  IF n = 0 THEN {<<>>}
  ELSE LET fewer == DataFolders(n - 1)
       IN  fewer \cup {Append(pdfs, chunks) : pdfs \in fewer, chunks \in 0..MaxChunks}

\* Before start-up: any data folder; the index folder absent or empty.
InitKB ==
  /\ InitAgent
  /\ kbpc = "new"
  /\ data_folder \in DataFolders(MaxPdfs)
  /\ kb_folder \in {Folder(FALSE, Unset), Folder(TRUE, Unset)}
  /\ vectorstore = Unset
  /\ retrieved = NoRetrieval

agentVars == <<tool_calls, fraud_data, runVars, last>>

\* the process starts: NokchaAgent.__init__ constructs the knowledge base
KBConstructs(embeds) ==
  /\ kbpc = "new"
  /\ LET k == KnowledgeBaseManager(kb_folder, data_folder, embeds)
     IN  /\ kbpc' = IF k.raised = "none" THEN "ready" ELSE "failed"
         /\ vectorstore' = k.vectorstore
         /\ kb_folder' = k.kb_folder
  /\ UNCHANGED <<agentVars, batchVars, connVars, data_folder, retrieved>>

\* query_vector_db calls retrieve
KBRetrieves(embeds) ==
  /\ kbpc = "ready"
  /\ retrieved' \in retrieve(vectorstore, embeds)
  /\ UNCHANGED <<agentVars, batchVars, connVars, kbpc, data_folder, kb_folder, vectorstore>>

\* the process stops, or failed to start, and is started again: the folders
\* stay as they are
KBRestarts ==
  /\ kbpc \in {"ready", "failed"}
  /\ kbpc' = "new"
  /\ vectorstore' = Unset
  /\ retrieved' = NoRetrieval
  /\ UNCHANGED <<agentVars, batchVars, connVars, data_folder, kb_folder>>

NextKB ==
  \/ \E embeds \in BOOLEAN : KBConstructs(embeds)
  \/ \E embeds \in BOOLEAN : KBRetrieves(embeds)
  \/ KBRestarts

SpecKB == InitKB /\ [][NextKB]_vars

(***************************************************************************)
(* The store step by step: execute_read_query and get_column_names, called *)
(* by several callers at a time, each call with a connection of its own.   *)
(***************************************************************************)
\* the queries and the table names the store is called with
StoreQueries ==
  { SELECT \o <<" ", "1">>, PRAGMA, SELECT \o <<Surrogate>> }
TableNames == { <<"t">>, <<Surrogate>> }

\* a variant of Finally: the connection is closed at the end of the try
\* block, not in a finally clause
FinallyOnReturn(conns, call) ==
  IF call.conn # 0 /\ call.exit = "return"
    THEN [conns EXCEPT ![call.conn] = "closed"]
    ELSE conns

\* finally: if conn: conn.close()
Finally(conns, call) ==
  IF call.conn # 0 THEN [conns EXCEPT ![call.conn] = "closed"] ELSE conns

\* the statement a call hands to cursor.execute
Statement(call) ==
  IF call.fn = "get_column_names" THEN PRAGMA \o <<" ">> \o call.arg ELSE call.arg

\* A caller enters the store: conn = None, then the try block.
StoreCalled(c, fn, arg) ==
  /\ calls[c].pc = "idle"
  /\ Len(connections) + Cardinality({d \in Callers : calls[d].pc = "connect"})
       < MaxConnections
  /\ calls' = [calls EXCEPT ![c] = StoreCall("connect", fn, arg, 0, "none", "none")]
  /\ UNCHANGED <<agentVars, batchVars, kbVars, connections>>

\* conn = self._get_db_connection(): a new connection, bound to the call's
\* local variable
StoreConnects(c) ==
  /\ calls[c].pc = "connect"
  /\ connections' = Append(connections, "open")
  /\ calls' = [calls EXCEPT ![c].conn = Len(connections) + 1,
                            ![c].pc = IF calls[c].fn = "execute_read_query"
                                        THEN "check" ELSE "execute"]
  /\ UNCHANGED <<agentVars, batchVars, kbVars>>

\* sqlite3.connect raises sqlite3.OperationalError: conn stays None, the
\* except clause returns []
StoreConnectFails(c) ==
  /\ calls[c].pc = "connect"
  /\ calls' = [calls EXCEPT ![c].pc = "finally", ![c].exit = "return"]
  /\ UNCHANGED <<agentVars, batchVars, kbVars, connections>>

\* execute_read_query's read-only test: ValueError, which no except clause
\* catches, or on to cursor.execute
StoreChecks(c) ==
  /\ calls[c].pc = "check"
  /\ calls' = IF IsSelectLeading(calls[c].arg)
                THEN [calls EXCEPT ![c].pc = "execute"]
                ELSE [calls EXCEPT ![c].pc = "finally", ![c].exit = "raise",
                                   ![c].exc = "ValueError"]
  /\ UNCHANGED <<agentVars, batchVars, kbVars, connections>>

\* cursor.execute and fetchall: the rows are returned, a sqlite3.Error is
\* caught and [] returned, any other exception leaves the try statement
StoreExecutes(c) ==
  /\ calls[c].pc = "execute"
  /\ \E d \in SqliteExecute(Statement(calls[c])) :
       calls' = IF d.exc \in {"none", "sqlite3.Error"}
                  THEN [calls EXCEPT ![c].pc = "finally", ![c].exit = "return"]
                  ELSE [calls EXCEPT ![c].pc = "finally", ![c].exit = "raise",
                                     ![c].exc = d.exc]
  /\ UNCHANGED <<agentVars, batchVars, kbVars, connections>>

\* the finally clause runs and the call is over
StoreLeaves(c) ==
  /\ calls[c].pc = "finally"
  /\ connections' = Finally(connections, calls[c])
  /\ calls' = [calls EXCEPT ![c].pc = "idle", ![c].conn = 0]
  /\ UNCHANGED <<agentVars, batchVars, kbVars>>

NextStore ==
  \E c \in Callers :
    \/ \E q \in StoreQueries : StoreCalled(c, "execute_read_query", q)
    \/ \E t \in TableNames : StoreCalled(c, "get_column_names", t)
    \/ StoreConnects(c)
    \/ StoreConnectFails(c)
    \/ StoreChecks(c)
    \/ StoreExecutes(c)
    \/ StoreLeaves(c)

SpecStore == Init /\ [][NextStore]_vars

(***************************************************************************)
(* One run whose model may ask for several tools in one message. The       *)
(* repository leaves the dispatch to the agent framework and does not turn *)
(* parallel tool calls off: the tool node starts the calls of a message in *)
(* their order and lets them run together, so they end in any order (one   *)
(* at a time included).                                                    *)
(***************************************************************************)
ToolCalls ==
  {[tool |-> "query_sql", query |-> q] : q \in AgentQueries}
    \cup {[tool |-> "query_vector_db", query |-> q] : q \in VectorQueries}

RECURSIVE Requests(_)
\* the sequences of one to n tool calls
Requests(n) ==
  IF n = 0 THEN {}
  ELSE {<<call>> : call \in ToolCalls}
         \cup {Append(calls_, call) : calls_ \in Requests(n - 1), call \in ToolCalls}

\* a tool call of the batch: "requested", "running" or "resolved"; number is
\* its place among the invocations of the run
BatchCall(call, state, number) ==
  [tool |-> call.tool, query |-> call.query, state |-> state, number |-> number]

Resolved == \A i \in 1..Len(batch) : batch[i].state = "resolved"

\* the model's message asks for the tool calls reqs
ParModelCallsTools(reqs) ==
  /\ Resolved
  /\ invocations + Len(reqs) <= MaxInvocations
  /\ batch' = [i \in 1..Len(reqs) |-> BatchCall(reqs[i], "requested", 0)]
  /\ UNCHANGED <<agentVars, kbVars, connVars, invocations, recorded>>

\* the tool node invokes the i-th tool of the message, after those before it
ParToolStarts(i) ==
  /\ i \in 1..Len(batch)
  /\ batch[i].state = "requested"
  /\ \A j \in 1..(i - 1) : batch[j].state # "requested"
  /\ batch' = [batch EXCEPT ![i].state = "running", ![i].number = invocations + 1]
  /\ invocations' = invocations + 1
  /\ UNCHANGED <<agentVars, kbVars, connVars, recorded>>

\* the tool returns: its last statements append the record and return
ParToolReturns(i) ==
  /\ i \in 1..Len(batch)
  /\ batch[i].state = "running"
  /\ \E o \in Invoke(batch[i]) :
       /\ o.raised = "none"
       /\ fraud_data' = IF Wrote(o) THEN "altered" ELSE fraud_data
  /\ tool_calls' = Append(tool_calls, ToolCallRecord(batch[i].tool, batch[i].query))
  /\ recorded' = Append(recorded, batch[i].number)
  /\ batch' = [batch EXCEPT ![i].state = "resolved"]
  /\ UNCHANGED <<runVars, last, kbVars, connVars, invocations>>

\* the tool raises: nothing is appended
ParToolRaises(i) ==
  /\ i \in 1..Len(batch)
  /\ batch[i].state = "running"
  /\ \E o \in Invoke(batch[i]) :
       /\ o.raised # "none"
       /\ fraud_data' = IF Wrote(o) THEN "altered" ELSE fraud_data
  /\ batch' = [batch EXCEPT ![i].state = "resolved"]
  /\ UNCHANGED <<tool_calls, runVars, last, kbVars, connVars, invocations, recorded>>

\* the run is over and the next one begins with the reset of the list
ParRunStarts ==
  /\ Resolved
  /\ batch # <<>>
  /\ tool_calls' = ResetLedger(tool_calls)
  /\ batch' = <<>>
  /\ invocations' = 0
  /\ recorded' = <<>>
  /\ UNCHANGED <<fraud_data, runVars, last, kbVars, connVars>>

NextPar ==
  \/ \E reqs \in Requests(MaxBatch) : ParModelCallsTools(reqs)
  \/ \E i \in 1..MaxBatch : ParToolStarts(i)
  \/ \E i \in 1..MaxBatch : ParToolReturns(i)
  \/ \E i \in 1..MaxBatch : ParToolRaises(i)
  \/ ParRunStarts

SpecPar == Init /\ [][NextPar]_vars

(***************************************************************************)
(* Properties of the guard and the store (checked under SpecTool).         *)
(***************************************************************************)
\* the positions of s where keyword occurs, in any letter case
Occurrences(keyword, s) ==
  {i \in 1..(Len(s) - Len(keyword) + 1) :
     \A j \in 1..Len(keyword) : ToUpper(s[i + j - 1]) = keyword[j]}

\* the occurrence of keyword at position i of s has a string edge or a
\* non-word character on its left, and on its right
BoundedLeft(s, i) == i = 1 \/ ~IsWordChar(s[i - 1])
BoundedRight(keyword, s, i) ==
  i + Len(keyword) > Len(s) \/ ~IsWordChar(s[i + Len(keyword)])

\* keyword is a standalone token of s
Standalone(keyword, s) ==
  \E i \in Occurrences(keyword, s) : BoundedLeft(s, i) /\ BoundedRight(keyword, s, i)

Keywords == Range(forbidden_keywords)

ViaTool == last.called /\ last.via = "query_sql"
ReachedStore == last.called /\ last.outcome.called_store
GuardRejected == last.outcome.raised = "ValueError" /\ last.outcome.by = "guard"

\* C1 as stated: every forbidden keyword that is a standalone token of the
\* query makes the guard of query_sql reject the query with an error naming
\* that keyword.
C1_GuardNamesEachKeyword ==
  ViaTool =>
    \A k \in Keywords :
      Standalone(k, last.query) => GuardRejected /\ last.outcome.keyword = k

\* C1, amended: a query with a forbidden keyword as a standalone token is
\* rejected by the guard of query_sql, and the error names the first keyword,
\* in the order of the list forbidden_keywords, that is a standalone token of
\* the query.
C1_GuardNamesFirstKeyword ==
  ViaTool /\ (\E k \in Keywords : Standalone(k, last.query)) =>
    /\ GuardRejected
    /\ LET at == {n \in 1..Len(forbidden_keywords) :
                    Standalone(forbidden_keywords[n], last.query)}
       IN  last.outcome.keyword =
             forbidden_keywords[CHOOSE n \in at : \A m \in at : n <= m]

\* a lower-case keyword after a statement separator was rejected
C1_Witness ==
  /\ ViaTool
  /\ last.query = SELECT \o <<";">> \o <<"d","r","o","p">>
  /\ GuardRejected
  /\ last.outcome.keyword = <<"D","R","O","P">>

\* C2: a query whose every occurrence of a forbidden keyword has a word
\* character immediately before it or immediately after it is not rejected by
\* the guard of query_sql.
OnlyInsideIdentifiers(s) ==
  \A k \in Keywords : \A i \in Occurrences(k, s) :
    ~BoundedLeft(s, i) \/ ~BoundedRight(k, s, i)

C2_GuardPassesEmbeddedKeywords ==
  ViaTool /\ OnlyInsideIdentifiers(last.query) => ~GuardRejected

\* a query with a keyword inside a longer identifier went past the guard
C2_Witness ==
  /\ ViaTool
  /\ last.query = SELECT \o <<"_">> \o <<"d","r","o","p">>
  /\ OnlyInsideIdentifiers(last.query)
  /\ last.outcome.called_store

\* the first non-whitespace characters of s are SELECT, in any letter case
LeadsWithSelect(s) ==
  LET at == {i \in 1..Len(s) : ~IsSpace(s[i])}
  IN  /\ at # {}
      /\ LET i == CHOOSE n \in at : \A m \in at : n <= m
         IN  /\ i + Len(SELECT) - 1 <= Len(s)
             /\ Upper(SubSeq(s, i, i + Len(SELECT) - 1)) = SELECT

\* C3: execute_read_query on a query that does not lead with SELECT raises the
\* rejection error to its caller and does not execute the statement, with or
\* without a guard before it.
C3_StoreRejectsNonSelect ==
  ReachedStore /\ ~LeadsWithSelect(last.query) =>
    /\ last.outcome.store.raised = "ValueError"
    /\ ~last.outcome.store.executed

\* C8: when the execution of a query that leads with SELECT fails, for any
\* reason, execute_read_query returns the empty sequence and raises nothing.
C8_StoreFailsSoft ==
  ReachedStore /\ LeadsWithSelect(last.query) /\ last.outcome.store.failure # "none" =>
    /\ last.outcome.store.raised = "none"
    /\ last.outcome.store.result = "empty"

\* C9: no invocation of query_sql, on any query, executes a statement that
\* changes the database: table fraud_data stays as it was loaded.
C9_TableUnchanged ==
  /\ fraud_data = "loaded"
  /\ last.called => ~Wrote(last.outcome)

\* a stacked query whose second statement writes, and that no forbidden
\* keyword gives away, went through the guard and the store to the driver
C9_Witness ==
  /\ ViaTool
  /\ last.query = SELECT \o <<";">> \o <<"R","E","P","L","A","C","E">>
  /\ last.outcome.store.executed
  /\ fraud_data = "loaded"

\* the harness invoked one of the two tools
Invoked == last.called /\ last.via \in {"query_sql", "query_vector_db"}

\* C12: every invocation of query_sql or query_vector_db, whether it returns
\* or raises, appends exactly one record to the ledger.
C12_EveryInvocationRecorded ==
  Invoked => Len(tool_calls) = 1

\* C16: in query_sql the guard runs before the store: the store is never
\* called with a query that has a forbidden keyword as a standalone token,
\* and an invocation the guard rejects calls no store and leaves the ledger
\* as it was.
C16_GuardBeforeStore ==
  /\ ViaTool /\ last.outcome.called_store =>
       \A k \in Keywords : ~Standalone(k, last.query)
  /\ ViaTool /\ GuardRejected =>
       ~last.outcome.called_store /\ ~last.outcome.appended /\ tool_calls = <<>>

\* a query whose first statement is forbidden was stopped before the store
C16_Witness ==
  /\ ViaTool
  /\ last.query = <<"U","P","D","A","T","E">> \o <<";">> \o SELECT
  /\ GuardRejected
  /\ ~last.outcome.called_store
  /\ tool_calls = <<>>

\* the store swallowed a failure of the execution and returned []
StoreFailedSoft ==
  /\ last.outcome.called_store
  /\ last.outcome.raised = "none"
  /\ last.outcome.store.failure # "none"

\* C17: every record of the ledger has status "success"; an invocation of
\* query_sql whose execution failed inside the store, and was answered with
\* an empty result, is recorded with status "success".
C17_RecordsAreSuccess ==
  /\ \A i \in 1..Len(tool_calls) : tool_calls[i].status = "success"
  /\ ViaTool /\ StoreFailedSoft =>
       tool_calls = <<[tool_name |-> "query_sql", query |-> last.query,
                       status |-> "success"]>>

\* a stacked query failed in the driver and its invocation was recorded
C17_Witness ==
  /\ ViaTool
  /\ last.query = SELECT \o <<";">> \o SELECT
  /\ last.outcome.store.failure = "sqlite3.Error"
  /\ Len(tool_calls) = 1
  /\ tool_calls[1].status = "success"

(***************************************************************************)
(* Properties of the runs (checked under Spec and SpecSeq).                *)
(***************************************************************************)
\* C4: with runs interleaved in any way, the ledger aeval returns for a run
\* holds exactly the records of that run's own tool invocations.
C4_LedgerIsolation ==
  \A r \in Runs : mode[r] = "aeval" /\ pc[r] = "done" => returned[r] = own[r]

\* the run has not invoked a tool yet: the model has not asked for one, or
\* the first tool it asked for has not run
BeforeFirstTool(r) == steps[r] = 0 \/ (steps[r] = 1 /\ conv[r] = "none")

\* C5: with runs served one after another, in either mode, the ledger is empty
\* for a run from its start until its first tool invocation, whatever earlier
\* runs recorded.
C5_LedgerEmptyAtRunStart ==
  \A r \in Runs : Active(r) /\ BeforeFirstTool(r) => tool_calls = <<>>

\* a streaming run has started, and has invoked no tool yet, after earlier
\* runs left two records in the list
C5_Witness ==
  \E r \in Runs :
    /\ Active(r) /\ mode[r] = "ainvoke" /\ BeforeFirstTool(r)
    /\ dropped = 2
    /\ tool_calls = <<>>

\* C6: a rejection by the guard or by the store never ends the run as a
\* failure of aeval / ainvoke: it is fed back as a tool error and the run goes
\* on.
C6_RejectionFedBack ==
  \A r \in Runs : raised[r] \notin {"guard", "store"}

\* C7: a run whose reasoning model asks for a tool at every step ends, once
\* the iteration limit is reached, by returning an answer to the caller: the
\* limit never makes aeval / ainvoke fail.
C7_AbortReturnsAnswer ==
  \A r \in Runs : raised[r] # "GraphRecursionError"

\* C10: every object the streaming endpoint emits has a content and a done
\* field, and the objects of a request that is over end with the sentinel,
\* which occurs once.
C10_StreamProtocol ==
  \A r \in Runs : mode[r] = "ainvoke" =>
    /\ \A i \in 1..Len(out[r]) : {"content", "done"} \subseteq DOMAIN out[r][i]
    /\ Ended(r) =>
         /\ out[r] # <<>>
         /\ out[r][Len(out[r])] = Sentinel
         /\ \A i \in 1..(Len(out[r]) - 1) : out[r][i] # Sentinel

\* C13: the streaming mode emits text of the model's final answer only: the
\* stream of a request carries no object for a model step that asks for a
\* tool.
C13_StreamOnlyFinalAnswer ==
  \A r \in Runs : mode[r] = "ainvoke" =>
    \A i \in 1..Len(out[r]) :
      out[r][i] = Sentinel \/ out[r][i] = ContentChunk("answer\n")

(***************************************************************************)
(* Properties of the knowledge base (checked under SpecKB).                *)
(***************************************************************************)
\* the index holds no chunk of a source PDF
EmptyIndex == \A d \in vectorstore.docs : d = dummy_doc

\* C11: retrieve on an index with no ingested document returns the empty
\* sequence and raises nothing.
C11_EmptyIndexRetrievesNothing ==
  kbpc = "ready" /\ retrieved.called /\ EmptyIndex =>
    retrieved.raised = "none" /\ retrieved.docs = {}

(***************************************************************************)
(* Properties of the store's connections (checked under SpecStore).        *)
(***************************************************************************)
\* C15: every call of execute_read_query and of get_column_names closes the
\* connection it opened, however it ends: a connection is open only while
\* the call that opened it is under way, and no two calls hold the same
\* connection.
C15_ConnectionsClosed ==
  /\ \A n \in 1..Len(connections) :
       connections[n] = "open" =>
         \E c \in Callers : calls[c].pc # "idle" /\ calls[c].conn = n
  /\ \A c, d \in Callers :
       c # d /\ calls[c].conn # 0 => calls[c].conn # calls[d].conn

\* a call left by an exception no except clause catches, after others, and
\* every connection is closed
C15_Witness ==
  /\ \A c \in Callers : calls[c].pc = "idle"
  /\ \E c \in Callers : calls[c].exit = "raise" /\ calls[c].exc = "UnicodeEncodeError"
  /\ Len(connections) >= 2
  /\ \A n \in 1..Len(connections) : connections[n] = "closed"

(***************************************************************************)
(* Properties of the tool calls of one run (checked under SpecPar).        *)
(***************************************************************************)
\* C14: within one run no two tool calls are under way at once, and the
\* records of the ledger are in the order in which the tools were invoked.
C14_SequentialInOrder ==
  /\ Cardinality({i \in 1..Len(batch) : batch[i].state = "running"}) <= 1
  /\ \A i, j \in 1..Len(recorded) : i < j => recorded[i] < recorded[j]

====
